---------------------------- MODULE Spec2Model ----------------------------
(***************************************************************************)
(* The flag subsystem of bzflag: the registry of flag types, the custom    *)
(* flag set, and the wire codec of flag types and flag instances.          *)
(*                                                                         *)
(* src/include/Flag.h declares the classes FlagType and FlagInstance and   *)
(* the namespace Flags.  The constructor of FlagType, the enumerations,    *)
(* the member types (std::map, std::set, shared pointers), the signatures  *)
(* and the documentation comments are taken from that header.  The bodies  *)
(* of the member functions live in Flag.cxx, which accompanies the header  *)
(* but is not part of the sources at hand; they are modelled from the      *)
(* design document, and every such definition says so in its comment.      *)
(*                                                                         *)
(* Conventions.  A character string of the program is a sequence of byte   *)
(* values.  A float is the four bytes of its IEEE-754 bit pattern as the   *)
(* host holds them, least significant first.  A                            *)
(* FlagType::Ptr is an integer: 0 is the null pointer, -i is the i-th      *)
(* built-in object of the catalog, and i > 0 is the i-th FlagType object   *)
(* constructed with custom = true (heap[i]).                               *)
(***************************************************************************)
EXTENDS Integers, Sequences, FiniteSets, TLC

(***************************************************************************)
(* Bounds of the model.                                                    *)
(***************************************************************************)
\* custom FlagType objects constructed in one behaviour
MaxCustom == 2
\* calls recorded by the bootstrap specification
MaxCalls == 4

(***************************************************************************)
(* Enumerations of Flag.h.                                                 *)
(***************************************************************************)
NoExist == 0
OnGround == 1
OnTank == 2
InAir == 3
Coming == 4
Going == 5
FlagStatus == {NoExist, OnGround, OnTank, InAir, Coming, Going}

EnduranceNormal == 0
Unstable == 1
Sticky == 2
FlagEndurance == {EnduranceNormal, Unstable, Sticky}

Good == 0
Bad == 1
FlagQuality == {Good, Bad}

ShotNormal == 0
Special == 1

EffectNormal == 0
EffectVelocity == 1
EffectColorblindness == 28

\* One byte too few on both sides of the wire.
FlagPackSize_one == 2 - 1

\* #define FlagPackSize 2
FlagPackSize == 2

\* TeamColor is an enumeration of global.h; the model needs two of its values.
NoTeam == 0
RedTeamColor == 1

NULL == 0

(***************************************************************************)
(* FlagType::FlagType: the constructor copies its nine arguments into the  *)
(* members.                                                                *)
(***************************************************************************)
\* A constructor whose initialiser list reads flagName(help), flagHelp(name).
FlagType_swapped(name, abbv, endurance, sType, quality, team, effect, help, custom) ==
    [flagName |-> help, flagAbbv |-> abbv, flagHelp |-> name,
     endurance |-> endurance, flagShot |-> sType, flagQuality |-> quality,
     flagTeam |-> team, flagEffect |-> effect, custom |-> custom]

FlagType(name, abbv, endurance, sType, quality, team, effect, help, custom) ==
    [flagName |-> name, flagAbbv |-> abbv, flagHelp |-> help,
     endurance |-> endurance, flagShot |-> sType, flagQuality |-> quality,
     flagTeam |-> team, flagEffect |-> effect, custom |-> custom]

(***************************************************************************)
(* The built-in catalog: the objects Flags::init creates for the pointers  *)
(* of namespace Flags.  The header names the pointers; the abbreviations   *)
(* and qualities are those of Flag.cxx.  The model keeps four of the       *)
(* pointers: one with an empty abbreviation, a good flag with a            *)
(* one-character abbreviation, a bad flag with a two-character one, and    *)
(* the Unknown sentinel.       <<86>> = "V"     <<67, 66>> = "CB"          *)
(***************************************************************************)
Catalog ==
    << FlagType(<< >>, << >>, EnduranceNormal, ShotNormal, Good, NoTeam,
                EffectNormal, << >>, FALSE),
       FlagType(<<86>>, <<86>>, Unstable, ShotNormal, Good, NoTeam,
                EffectVelocity, <<104>>, FALSE),
       FlagType(<<67>>, <<67, 66>>, Sticky, ShotNormal, Bad, NoTeam,
                EffectColorblindness, <<104>>, FALSE),
       FlagType(<<85>>, << >>, EnduranceNormal, ShotNormal, Good, NoTeam,
                EffectNormal, << >>, FALSE) >>

\* The pointers of namespace Flags once Flags::init has run.
Flags_Null == -1
Flags_Velocity == -2
Flags_Colorblindness == -3
Flags_Unknown == -4

\* The built-in objects Flags::init enters into the registry: all but the
\* Unknown sentinel.
Registered == {Flags_Null, Flags_Velocity, Flags_Colorblindness}

Builtins == Registered \cup {Flags_Unknown}

(***************************************************************************)
(* The descriptors custom FlagType objects are constructed from: the       *)
(* arguments of the constructor, the last (custom) being true.             *)
(*   1: "XZ", Bad, Sticky (the design document's scenario)                 *)
(*   2: "V", Good, Unstable, Special (the abbreviation of the built-in     *)
(*      Velocity)                                                          *)
(* Two objects constructed from the same descriptor share an abbreviation. *)
(***************************************************************************)
CustomArgs ==
    << [name |-> <<88, 90, 49>>, abbv |-> <<88, 90>>, endurance |-> Sticky,
        sType |-> ShotNormal, quality |-> Bad, team |-> NoTeam,
        effect |-> EffectColorblindness, help |-> <<104, 49>>],
       [name |-> <<86, 50>>, abbv |-> <<86>>, endurance |-> Unstable,
        sType |-> Special, quality |-> Good, team |-> RedTeamColor,
        effect |-> EffectVelocity, help |-> << >>] >>

Construct(a) ==
    FlagType(a.name, a.abbv, a.endurance, a.sType, a.quality, a.team, a.effect,
             a.help, TRUE)


(***************************************************************************)
(* State.                                                                  *)
(*   initialized  Flags::init has assigned the pointers of namespace Flags *)
(*   flagMap      the static map behind FlagType::getFlagMap: whether it   *)
(*                has been constructed, which construction it is (gen),    *)
(*                and its entries, abbreviation -> FlagType::Ptr           *)
(*   Sets         FlagType::Sets, one std::set per FlagQuality             *)
(*   customFlags  FlagType::customFlags                                    *)
(*   heap         the FlagType objects constructed with custom = true      *)
(*   wire         the buffer a pack call has written and no unpack call    *)
(*                has read yet, with what was packed (src, srcI, fake)     *)
(*   last         the call that has just returned: its arguments, what it  *)
(*                handed back and what it found                            *)
(*   hist         what the callers of the bootstrap specification saw      *)
(***************************************************************************)
VARIABLES initialized, flagMap, Sets, customFlags, heap, wire, last, hist

vars == <<initialized, flagMap, Sets, customFlags, heap, wire, last, hist>>

\* The object a non-null pointer refers to.
TypeOf(h, p) == IF p < 0 THEN Catalog[-p] ELSE h[p]

\* The value of a pointer of namespace Flags: null until Flags::init
\* "initializes all the FlagType objects in the Flags namespace".
FlagsPtr(inited, p) == IF inited THEN p ELSE NULL

\* The FlagType objects that exist.
Alive(inited, h) == (IF inited THEN Builtins ELSE {}) \cup (1..Len(h))

(***************************************************************************)
(* The registry.                                                           *)
(***************************************************************************)
\* Without the static: every call constructs a map of its own.
getFlagMap_fresh(fm) == [built |-> TRUE, gen |-> fm.gen + 1, m |-> << >>]

\* FlagType::getFlagMap: "makes sure that the flag map is initialized
\* before it's used", and returns the one map.
getFlagMap(fm) ==
    IF fm.built THEN fm ELSE [built |-> TRUE, gen |-> fm.gen + 1, m |-> << >>]

\* Both accessors index Sets with the same quality.
getGoodFlags_bad(sets) == sets[Bad]

\* FlagType::getGoodFlags, FlagType::getBadFlags
getGoodFlags(sets) == sets[Good]

getBadFlags(sets) == sets[Bad]

\* An unknown abbreviation yields the type with the empty abbreviation.
getDescFromAbbreviation_null(m, abbreviation) ==
    IF abbreviation \in DOMAIN m THEN m[abbreviation]
    ELSE IF << >> \in DOMAIN m THEN m[<< >>] ELSE NULL

\* FlagType::getDescFromAbbreviation: "If there is no such FlagType object,
\* NULL is returned."
getDescFromAbbreviation(m, abbreviation) ==
    IF abbreviation \in DOMAIN m THEN m[abbreviation] ELSE NULL

\* std::map: m[k] = p, and m.erase(k) for every k of ks
MapPut(m, k, p) == [x \in DOMAIN m \cup {k} |-> IF x = k THEN p ELSE m[x]]

MapErase(m, ks) == [x \in DOMAIN m \ ks |-> m[x]]

\* Registration of the object t behind p: "source simply inserts into the
\* map", keyed by the abbreviation, and into the set of its quality.
RegisterMap(m, p, t) == MapPut(m, t.flagAbbv, p)

RegisterSets(sets, p, t) ==
    [q \in FlagQuality |-> IF q = t.flagQuality THEN sets[q] \cup {p} ELSE sets[q]]

\* The map after Flags::init has entered the built-in objects bs.
RECURSIVE InitMap(_, _)
InitMap(m, bs) ==
    IF bs = {} THEN m
    ELSE LET p == CHOOSE x \in bs : TRUE
         IN  InitMap(RegisterMap(m, p, TypeOf(<< >>, p)), bs \ {p})

InitSets(sets, bs) ==
    [q \in FlagQuality |-> sets[q] \cup {p \in bs : TypeOf(<< >>, p).flagQuality = q}]

(***************************************************************************)
(* The transport's primitives (network byte order).  A read at an address  *)
(* past the end of the message yields what the memory there holds, g.      *)
(***************************************************************************)
Rd(buf, i, g) == IF i <= Len(buf) THEN buf[i] ELSE g

nboPackUByte(v) == <<v % 256>>

nboPackUInt(v) ==
    <<(v \div 16777216) % 256, (v \div 65536) % 256, (v \div 256) % 256, v % 256>>

nboUnpackUInt(buf, i, g) ==
    Rd(buf, i, g) * 16777216 + Rd(buf, i + 1, g) * 65536
        + Rd(buf, i + 2, g) * 256 + Rd(buf, i + 3, g)

nboPackStdString(s) == nboPackUInt(Len(s)) \o s

nboUnpackStdString(buf, i, g) ==
    LET n == nboUnpackUInt(buf, i, g)
    IN  [str |-> [k \in 1..n |-> Rd(buf, i + 3 + k, g)], next |-> i + 4 + n]

\* A float goes out most significant byte first.
nboPackFloat(v) == <<v[4], v[3], v[2], v[1]>>

nboUnpackFloat(buf, i, g) ==
    <<Rd(buf, i + 3, g), Rd(buf, i + 2, g), Rd(buf, i + 1, g), Rd(buf, i, g)>>

nboPackVector(v) == nboPackFloat(v[1]) \o nboPackFloat(v[2]) \o nboPackFloat(v[3])

nboUnpackVector(buf, i, g) ==
    <<nboUnpackFloat(buf, i, g), nboUnpackFloat(buf, i + 4, g),
      nboUnpackFloat(buf, i + 8, g)>>

\* The character string held by the bytes b: the bytes before the first null.
CString(b) ==
    LET n == CHOOSE k \in 0..Len(b) :
                 /\ \A j \in 1..k : b[j] # 0
                 /\ (k = Len(b) \/ b[k + 1] = 0)
    IN  SubSeq(b, 1, n)

(***************************************************************************)
(* The codec of FlagType.                                                  *)
(***************************************************************************)
\* FlagType::pack: the abbreviation, null-padded to FlagPackSize bytes
FlagType_pack(t) ==
    [i \in 1..FlagPackSize |-> IF i <= Len(t.flagAbbv) THEN t.flagAbbv[i] ELSE 0]

\* A fakePack that writes the abbreviation it should hide.
FlagType_fakePack_real(t) == FlagType_pack(t)

\* FlagType::fakePack: the abbreviation of the decoy, the Null flag
FlagType_fakePack(t) == FlagType_pack(Catalog[-Flags_Null])

\* FlagType::packCustom
FlagType_packCustom(t) ==
    FlagType_pack(t) \o nboPackStdString(t.flagName) \o nboPackStdString(t.flagHelp)
        \o nboPackUByte(t.endurance) \o nboPackUByte(t.flagShot)
        \o nboPackUByte(t.flagQuality) \o nboPackUByte(t.flagTeam)
        \o nboPackUByte(t.flagEffect)

\* FlagType::unpack(buf, desc): desc and the returned buffer position.  The
\* call has no length to compare with: it reads FlagPackSize bytes.
FlagType_unpack(m, unknown, buf, i, g) ==
    LET abbv == CString([k \in 1..FlagPackSize |-> Rd(buf, i + k - 1, g)])
        d == getDescFromAbbreviation(m, abbv)
    IN  [abbv |-> abbv,
         desc |-> IF d = NULL THEN unknown ELSE d,
         next |-> i + FlagPackSize]

\* FlagType::unpackCustom(buf, desc): the object it constructs and the
\* returned buffer position.
FlagType_unpackCustom(buf, g) ==
    LET abbv == CString([k \in 1..FlagPackSize |-> Rd(buf, k, g)])
        name == nboUnpackStdString(buf, FlagPackSize + 1, g)
        help == nboUnpackStdString(buf, name.next, g)
        p == help.next
    IN  [type |-> FlagType(name.str, abbv, Rd(buf, p, g), Rd(buf, p + 1, g),
                           Rd(buf, p + 2, g), Rd(buf, p + 3, g), Rd(buf, p + 4, g),
                           help.str, TRUE),
         next |-> p + 5]

(***************************************************************************)
(* The codec of FlagInstance.                                              *)
(***************************************************************************)
FlagInstance_packBody(f) ==
    nboPackUByte(f.status) \o nboPackUByte(f.endurance) \o nboPackUByte(f.owner)
        \o nboPackVector(f.position) \o nboPackVector(f.launchPosition)
        \o nboPackVector(f.landingPosition) \o nboPackFloat(f.flightTime)
        \o nboPackFloat(f.flightEnd) \o nboPackFloat(f.initialVelocity)

\* FlagInstance::pack, FlagInstance::fakePack
FlagInstance_pack(h, f) == FlagType_pack(TypeOf(h, f.type)) \o FlagInstance_packBody(f)

FlagInstance_fakePack(h, f) ==
    FlagType_fakePack(TypeOf(h, f.type)) \o FlagInstance_packBody(f)

\* FlagInstance::unpack(buf): the members it sets
FlagInstance_unpack(m, unknown, buf, g) ==
    LET t == FlagType_unpack(m, unknown, buf, 1, g)
        p == t.next
    IN  [type |-> t.desc, status |-> Rd(buf, p, g), endurance |-> Rd(buf, p + 1, g),
         owner |-> Rd(buf, p + 2, g),
         position |-> nboUnpackVector(buf, p + 3, g),
         launchPosition |-> nboUnpackVector(buf, p + 15, g),
         landingPosition |-> nboUnpackVector(buf, p + 27, g),
         flightTime |-> nboUnpackFloat(buf, p + 39, g),
         flightEnd |-> nboUnpackFloat(buf, p + 43, g),
         initialVelocity |-> nboUnpackFloat(buf, p + 47, g)]

\* The length of the record FlagInstance::unpack reads.
FlagInstance_length == FlagPackSize + 51


(***************************************************************************)
(* The inputs of the calls.                                                *)
(***************************************************************************)
\* What the memory past the end of a message may hold.
StaleBytes == {0, 1}

\* The abbreviations looked up, and those a peer sends: "CB", "V", "ZZ", "XZ"
LookupAbbvs == {<<67, 66>>, <<86>>, <<90, 90>>}

PeerAbbvs == {<<90, 90>>, <<88, 90>>}

\* Floats: 0.0, 1.0, 2.0, 3.0, 4.0, 5.0, 6.0, 8.0, -1.0, 2.5 and 0.1
F0 == <<0, 0, 0, 0>>
F1 == <<0, 0, 128, 63>>
F2 == <<0, 0, 0, 64>>
F3 == <<0, 0, 64, 64>>
F4 == <<0, 0, 128, 64>>
F5 == <<0, 0, 160, 64>>
F6 == <<0, 0, 192, 64>>
F8 == <<0, 0, 0, 65>>
Fm1 == <<0, 0, 128, 191>>
F2_5 == <<0, 0, 32, 64>>
F0_1 == <<205, 204, 204, 61>>

\* The members of a FlagInstance other than its type and status: at rest
\* with no owner, and carried or in flight (flightTime 2.5 of flightEnd 5.0).
Members ==
    << [endurance |-> EnduranceNormal, owner |-> 255,
        position |-> <<F0, F0, F0>>, launchPosition |-> <<F0, F0, F0>>,
        landingPosition |-> <<F0, F0, F0>>, flightTime |-> F0, flightEnd |-> F0,
        initialVelocity |-> F0],
       [endurance |-> Sticky, owner |-> 3,
        position |-> <<F1, F2, F3>>, launchPosition |-> <<F4, F5, F6>>,
        landingPosition |-> <<Fm1, F0, F8>>, flightTime |-> F2_5, flightEnd |-> F5,
        initialVelocity |-> F0_1] >>

FlagInstance(type, status, mb) ==
    [type |-> type, status |-> status, endurance |-> mb.endurance,
     owner |-> mb.owner, position |-> mb.position,
     launchPosition |-> mb.launchPosition, landingPosition |-> mb.landingPosition,
     flightTime |-> mb.flightTime, flightEnd |-> mb.flightEnd,
     initialVelocity |-> mb.initialVelocity]

\* The instances packed: one per status and existing type.
MembersOf(status) == Members[IF status \in {OnTank, InAir} THEN 2 ELSE 1]

NoInstance == FlagInstance(NULL, NoExist, Members[1])

NoWire ==
    [kind |-> "none", bytes |-> << >>, src |-> NULL, srcI |-> NoInstance,
     fake |-> FALSE, full |-> 0, minCut |-> 0]

\* The record of a call before the call fills it in.  ret is the buffer
\* position an unpack call returns (NULL would be a null pointer), desc the
\* pointer the call hands back, set whether it assigned desc.
Blank ==
    [op |-> "none", ptr |-> NULL, desc |-> NULL, set |-> FALSE, ret |-> 1,
     abbv |-> << >>, known |-> FALSE, prev |-> NULL, trunc |-> FALSE,
     regSame |-> TRUE, fake |-> FALSE, registered |-> FALSE,
     srcI |-> NoInstance, outI |-> NoInstance]

\* The lengths a message may be cut to.  A cut inside a length prefix makes
\* unpackCustom read a length from stale memory; the model keeps both
\* prefixes (minCut).
Cuts(w) == {k \in {1, w.full - 1} : w.minCut <= k /\ k < w.full}

\* Whether p is what the registry m holds under p's abbreviation.
IsEntry(m, h, p) ==
    p # NULL /\ getDescFromAbbreviation(m, TypeOf(h, p).flagAbbv) = p

(***************************************************************************)
(* Init and the operations.                                                *)
(***************************************************************************)
Init ==
    /\ initialized = FALSE
    /\ flagMap = [built |-> FALSE, gen |-> 0, m |-> << >>]
    /\ Sets = [q \in FlagQuality |-> {}]
    /\ customFlags = {}
    /\ heap = << >>
    /\ wire = NoWire
    /\ last = Blank
    /\ hist = << >>

\* No call is under way and no message is in flight: the next call may start.
Idle == last.op = "none" /\ wire.kind = "none"

\* The caller has taken what the last call handed back.
Return ==
    /\ last.op # "none"
    /\ last' = Blank
    /\ UNCHANGED <<initialized, flagMap, Sets, customFlags, heap, wire, hist>>

\* Flags::init: populates the built-in catalog into the registry, once.
DoInit ==
    /\ Idle
    /\ IF initialized
       THEN UNCHANGED <<initialized, flagMap, Sets>>
       ELSE /\ initialized' = TRUE
            /\ flagMap' = [getFlagMap(flagMap) EXCEPT !.m = InitMap(@, Registered)]
            /\ Sets' = InitSets(Sets, Registered)
    /\ last' = [Blank EXCEPT !.op = "init"]
    /\ UNCHANGED <<customFlags, heap, wire>>

\* FlagType::getFlagMap called for itself
DoGetFlagMap ==
    /\ Idle
    /\ flagMap' = getFlagMap(flagMap)
    /\ last' = [Blank EXCEPT !.op = "getFlagMap"]
    /\ UNCHANGED <<initialized, Sets, customFlags, heap, wire>>

\* FlagType::getDescFromAbbreviation(a)
DoLookup(a) ==
    /\ Idle
    /\ LET fm == getFlagMap(flagMap)
       IN  /\ flagMap' = fm
           /\ last' = [Blank EXCEPT !.op = "lookup", !.abbv = a, !.set = TRUE,
                                    !.known = a \in DOMAIN fm.m,
                                    !.desc = getDescFromAbbreviation(fm.m, a)]
    /\ UNCHANGED <<initialized, Sets, customFlags, heap, wire>>

FlagsInit == DoInit /\ UNCHANGED hist

GetFlagMap == DoGetFlagMap /\ UNCHANGED hist

Lookup == \E a \in LookupAbbvs : DoLookup(a) /\ UNCHANGED hist

\* std::make_shared<FlagType>(..., true): a custom object, not yet registered
NewFlagType ==
    /\ Idle
    /\ Len(heap) < MaxCustom
    /\ \E k \in DOMAIN CustomArgs :
          /\ heap' = Append(heap, Construct(CustomArgs[k]))
          /\ last' = [Blank EXCEPT !.op = "new", !.ptr = Len(heap) + 1]
    /\ UNCHANGED <<initialized, flagMap, Sets, customFlags, wire, hist>>

\* Flags::AddCustomFlag(ptr): enters ptr into the custom set, the set of its
\* quality and the map, and returns it.
AddCustomFlag ==
    /\ Idle
    /\ \E p \in 1..Len(heap) :
          LET t == heap[p]
              fm == getFlagMap(flagMap)
          IN  /\ flagMap' = [fm EXCEPT !.m = RegisterMap(@, p, t)]
              /\ Sets' = RegisterSets(Sets, p, t)
              /\ customFlags' = customFlags \cup {p}
              /\ last' = [Blank EXCEPT !.op = "AddCustomFlag", !.ptr = p,
                                       !.desc = p, !.set = TRUE,
                                       !.abbv = t.flagAbbv,
                                       !.known = t.flagAbbv \in DOMAIN fm.m,
                                       !.prev = getDescFromAbbreviation(fm.m, t.flagAbbv),
                                       !.regSame = FALSE]
    /\ UNCHANGED <<initialized, heap, wire, hist>>

\* Flags::clearCustomFlags: takes every custom type out of the map (by its
\* abbreviation) and out of the sets, and empties the custom set.
clearCustomFlags ==
    /\ Idle
    /\ LET fm == getFlagMap(flagMap)
       IN  flagMap' = [fm EXCEPT !.m = MapErase(@, {heap[c].flagAbbv : c \in customFlags})]
    /\ Sets' = [q \in FlagQuality |-> Sets[q] \ customFlags]
    /\ customFlags' = {}
    /\ last' = [Blank EXCEPT !.op = "clearCustomFlags"]
    /\ UNCHANGED <<initialized, heap, wire, hist>>

\* t->pack(buf) for an existing type, and two bytes sent by a peer
PackType ==
    /\ Idle
    /\ \E p \in Alive(initialized, heap) :
          /\ wire' = [NoWire EXCEPT !.kind = "type", !.src = p,
                                    !.bytes = FlagType_pack(TypeOf(heap, p)),
                                    !.full = FlagPackSize]
          /\ last' = [Blank EXCEPT !.op = "pack", !.ptr = p]
    /\ UNCHANGED <<initialized, flagMap, Sets, customFlags, heap, hist>>

RecvType ==
    /\ Idle
    /\ \E a \in PeerAbbvs :
          /\ wire' = [NoWire EXCEPT !.kind = "type", !.full = FlagPackSize,
                                    !.bytes = FlagType_pack([flagAbbv |-> a])]
          /\ last' = [Blank EXCEPT !.op = "recv", !.abbv = a]
    /\ UNCHANGED <<initialized, flagMap, Sets, customFlags, heap, hist>>

\* FlagType::unpack(buf, desc)
UnpackType ==
    /\ last.op = "none"
    /\ wire.kind = "type"
    /\ \E g \in StaleBytes :
          LET fm == getFlagMap(flagMap)
              r == FlagType_unpack(fm.m, FlagsPtr(initialized, Flags_Unknown),
                                   wire.bytes, 1, g)
          IN  /\ flagMap' = fm
              /\ last' = [Blank EXCEPT !.op = "unpack", !.ptr = wire.src,
                                       !.desc = r.desc, !.set = TRUE, !.ret = r.next,
                                       !.abbv = r.abbv,
                                       !.known = r.abbv \in DOMAIN fm.m,
                                       !.registered = IsEntry(fm.m, heap, wire.src),
                                       !.trunc = Len(wire.bytes) < wire.full]
    /\ wire' = NoWire
    /\ UNCHANGED <<initialized, Sets, customFlags, heap, hist>>

\* c->packCustom(buf) for a custom type
PackCustom ==
    /\ Idle
    /\ Len(heap) < MaxCustom
    /\ \E p \in 1..Len(heap) :
          LET b == FlagType_packCustom(heap[p])
          IN  /\ wire' = [NoWire EXCEPT !.kind = "custom", !.src = p, !.bytes = b,
                                        !.full = Len(b),
                                        !.minCut = FlagPackSize + 8 + Len(heap[p].flagName)]
              /\ last' = [Blank EXCEPT !.op = "packCustom", !.ptr = p]
    /\ UNCHANGED <<initialized, flagMap, Sets, customFlags, heap, hist>>

\* FlagType::unpackCustom(buf, desc): constructs a FlagType and registers it.
UnpackCustom ==
    /\ last.op = "none"
    /\ wire.kind = "custom"
    /\ Len(heap) < MaxCustom
    /\ \E g \in StaleBytes :
          LET r == FlagType_unpackCustom(wire.bytes, g)
              t == r.type
              p == Len(heap) + 1
              fm == getFlagMap(flagMap)
          IN  /\ heap' = Append(heap, t)
              /\ flagMap' = [fm EXCEPT !.m = RegisterMap(@, p, t)]
              /\ Sets' = RegisterSets(Sets, p, t)
              /\ customFlags' = customFlags \cup {p}
              /\ last' = [Blank EXCEPT !.op = "unpackCustom", !.ptr = wire.src,
                                       !.desc = p, !.set = TRUE, !.ret = r.next,
                                       !.abbv = t.flagAbbv,
                                       !.known = t.flagAbbv \in DOMAIN fm.m,
                                       !.prev = getDescFromAbbreviation(fm.m, t.flagAbbv),
                                       !.trunc = Len(wire.bytes) < wire.full,
                                       !.regSame = FALSE]
    /\ wire' = NoWire
    /\ UNCHANGED <<initialized, hist>>

\* f.pack(buf) and f.fakePack(buf) for an instance of an existing type
PackInstance ==
    /\ Idle
    /\ \E p \in Alive(initialized, heap), s \in FlagStatus :
          LET f == FlagInstance(p, s, MembersOf(s))
          IN  /\ wire' = [NoWire EXCEPT !.kind = "inst", !.srcI = f,
                                        !.bytes = FlagInstance_pack(heap, f),
                                        !.full = FlagInstance_length]
              /\ last' = [Blank EXCEPT !.op = "packInstance", !.srcI = f]
    /\ UNCHANGED <<initialized, flagMap, Sets, customFlags, heap, hist>>

FakePackInstance ==
    /\ Idle
    /\ \E p \in Alive(initialized, heap), s \in FlagStatus :
          LET f == FlagInstance(p, s, MembersOf(s))
          IN  /\ wire' = [NoWire EXCEPT !.kind = "inst", !.srcI = f, !.fake = TRUE,
                                        !.bytes = FlagInstance_fakePack(heap, f),
                                        !.full = FlagInstance_length]
              /\ last' = [Blank EXCEPT !.op = "fakePackInstance", !.srcI = f]
    /\ UNCHANGED <<initialized, flagMap, Sets, customFlags, heap, hist>>

\* f.unpack(buf)
UnpackInstance ==
    /\ last.op = "none"
    /\ wire.kind = "inst"
    /\ \E g \in StaleBytes :
          LET fm == getFlagMap(flagMap)
              r == FlagInstance_unpack(fm.m, FlagsPtr(initialized, Flags_Unknown),
                                       wire.bytes, g)
          IN  /\ flagMap' = fm
              /\ last' = [Blank EXCEPT !.op = "unpackInstance", !.srcI = wire.srcI,
                                       !.outI = r, !.set = TRUE, !.fake = wire.fake,
                                       !.ret = FlagInstance_length + 1,
                                       !.registered = IsEntry(fm.m, heap, wire.srcI.type),
                                       !.trunc = Len(wire.bytes) < wire.full]
    /\ wire' = NoWire
    /\ UNCHANGED <<initialized, Sets, customFlags, heap, hist>>

\* The transport delivers fewer bytes than the record has.
Truncate ==
    /\ last.op = "none"
    /\ wire.kind # "none"
    /\ Len(wire.bytes) = wire.full
    /\ \E k \in Cuts(wire) : wire' = [wire EXCEPT !.bytes = SubSeq(@, 1, k)]
    /\ UNCHANGED <<initialized, flagMap, Sets, customFlags, heap, last, hist>>

Next ==
    \/ FlagsInit
    \/ GetFlagMap
    \/ Lookup
    \/ NewFlagType
    \/ AddCustomFlag
    \/ clearCustomFlags
    \/ PackType
    \/ RecvType
    \/ UnpackType
    \/ PackCustom
    \/ UnpackCustom
    \/ PackInstance
    \/ FakePackInstance
    \/ UnpackInstance
    \/ Truncate
    \/ Return

Spec == Init /\ [][Next]_vars

(***************************************************************************)
(* The bootstrap alone: Flags::init and the lookups, in any order, each    *)
(* caller noting which map it was handed (gen) and what it found.          *)
(***************************************************************************)
Seen(op, a) ==
    [op |-> op, abbv |-> a, gen |-> flagMap'.gen, desc |-> last'.desc,
     inited |-> initialized]

BootInit ==
    /\ Len(hist) < MaxCalls
    /\ DoInit
    /\ hist' = Append(hist, Seen("init", << >>))

BootGetFlagMap ==
    /\ Len(hist) < MaxCalls
    /\ DoGetFlagMap
    /\ hist' = Append(hist, Seen("getFlagMap", << >>))

BootLookup ==
    /\ Len(hist) < MaxCalls
    /\ \E a \in LookupAbbvs : DoLookup(a) /\ hist' = Append(hist, Seen("lookup", a))

NextBoot ==
    \/ BootInit
    \/ BootGetFlagMap
    \/ BootLookup
    \/ Return

SpecBoot == Init /\ [][NextBoot]_vars

TypeOK ==
    /\ initialized \in BOOLEAN
    /\ flagMap.built \in BOOLEAN
    /\ Len(heap) <= MaxCustom
    /\ customFlags \subseteq 1..Len(heap)


(***************************************************************************)
(* The claims.                                                             *)
(***************************************************************************)
\* The map Flags::init builds when no custom type is involved.
BuiltinMap == InitMap(<< >>, Registered)

\* The members of a FlagInstance other than its type.
SameMembers(f, e) ==
    /\ f.status = e.status
    /\ f.owner = e.owner
    /\ f.position = e.position
    /\ f.launchPosition = e.launchPosition
    /\ f.landingPosition = e.landingPosition
    /\ f.flightTime = e.flightTime
    /\ f.flightEnd = e.flightEnd
    /\ f.initialVelocity = e.initialVelocity

\* C1: right after clearCustomFlags the map holds exactly the built-in
\* types, as before any custom type was registered, and at no time is a
\* built-in type missing from the map.
C1_ClearLeavesBuiltins ==
    /\ last.op = "clearCustomFlags" =>
          flagMap.m = (IF initialized THEN BuiltinMap ELSE << >>)
    /\ initialized => \A b \in Registered : IsEntry(flagMap.m, heap, b)

\* C2: every type the map holds is in exactly one of getGoodFlags() and
\* getBadFlags(), the one its flagQuality names, and the two are disjoint.
C2_Partition ==
    /\ getGoodFlags(Sets) \cap getBadFlags(Sets) = {}
    /\ \A a \in DOMAIN flagMap.m :
          LET p == flagMap.m[a]
              q == TypeOf(heap, p).flagQuality
          IN  /\ q \in FlagQuality
              /\ p \in getGoodFlags(Sets) <=> q = Good
              /\ p \in getBadFlags(Sets) <=> q = Bad

\* A custom type of quality Bad is registered, among the built-in types.
C2_Witness ==
    /\ initialized
    /\ \E p \in customFlags :
          /\ heap[p].flagQuality = Bad
          /\ IsEntry(flagMap.m, heap, p)
          /\ p \in getBadFlags(Sets)
          /\ p \notin getGoodFlags(Sets)

\* C3: a registration under an abbreviation the map already holds for
\* another type is signalled to the caller (a null or another pointer
\* comes back) and leaves the map's entry as it was.
C3_CollisionSignalled ==
    (/\ last.op \in {"AddCustomFlag", "unpackCustom"}
     /\ last.known
     /\ last.prev # last.desc)
    => /\ \/ last.ret = NULL
          \/ last.desc = NULL
          \/ (last.op = "AddCustomFlag" /\ last.desc # last.ptr)
       /\ flagMap.m[last.abbv] = last.prev

\* C4, as stated: unpack of an abbreviation that is no key of the map sets
\* desc to the Unknown sentinel object, never to null, and reports no
\* failure.
C4_UnknownAlways ==
    (last.op = "unpack" /\ ~last.known)
    => last.set /\ last.desc = Flags_Unknown /\ last.ret # NULL

\* C4, after initialisation: once Flags::init has run, unpack of an abbreviation that
\* is no key of the map sets desc to the Unknown sentinel object and
\* reports no failure.
C4_UnknownAfterInit ==
    (initialized /\ last.op = "unpack" /\ ~last.known)
    => last.set /\ last.desc = Flags_Unknown /\ last.ret # NULL

\* After init, the abbreviation of a custom type that is in the map no
\* longer (or not yet) has been unpacked.
C4_Witness ==
    /\ initialized
    /\ last.op = "unpack"
    /\ ~last.known
    /\ ~last.trunc
    /\ last.ptr \in 1..Len(heap)
    /\ last.desc = Flags_Unknown

\* C5: unpackCustom of what packCustom wrote for a custom type c yields a
\* type with c's name, abbreviation, help, endurance, shot type, quality,
\* team and effect, which is in customFlags and is the map's entry for its
\* abbreviation.
C5_CustomRoundTrip ==
    (last.op = "unpackCustom" /\ ~last.trunc)
    => LET c == heap[last.ptr]
           d == heap[last.desc]
       IN  /\ d.flagName = c.flagName
           /\ d.flagAbbv = c.flagAbbv
           /\ d.flagHelp = c.flagHelp
           /\ d.endurance = c.endurance
           /\ d.flagShot = c.flagShot
           /\ d.flagQuality = c.flagQuality
           /\ d.flagTeam = c.flagTeam
           /\ d.flagEffect = c.flagEffect
           /\ last.desc \in customFlags
           /\ IsEntry(flagMap.m, heap, last.desc)

\* The scenario's custom type has gone through packCustom and unpackCustom.
C5_Witness ==
    /\ last.op = "unpackCustom"
    /\ ~last.trunc
    /\ last.desc # last.ptr
    /\ heap[last.desc].flagAbbv = <<88, 90>>
    /\ heap[last.desc].flagHelp # heap[last.desc].flagName
    /\ heap[last.desc].flagEffect # EffectNormal

\* C6: unpack of the two bytes pack wrote for a built-in type that
\* Flags::init registered sets desc to that very type.
C6_BuiltinRoundTrip ==
    (last.op = "unpack" /\ ~last.trunc /\ last.ptr \in Registered)
    => last.desc = last.ptr

C8_InstanceRoundTrip ==
    (/\ last.op = "unpackInstance"
     /\ ~last.fake
     /\ ~last.trunc
     /\ last.registered)
    => /\ SameMembers(last.outI, last.srcI)
       /\ last.outI.type = last.srcI.type

\* An instance in the air, 2.5 into a flight of 5.0, has gone through pack
\* and unpack and is still in the air at 2.5.
C8_Witness ==
    /\ last.op = "unpackInstance"
    /\ ~last.fake
    /\ ~last.trunc
    /\ last.registered
    /\ last.srcI.status = InAir
    /\ last.srcI.flightEnd = F5
    /\ last.outI.status = InAir
    /\ last.outI.flightTime = F2_5

\* C9: an unpack call on a buffer shorter than its record reports a failure
\* (a null buffer pointer comes back), assigns nothing and leaves the
\* registry alone.
C9_TruncatedFails ==
    (last.op \in {"unpack", "unpackCustom", "unpackInstance"} /\ last.trunc)
    => last.ret = NULL /\ ~last.set /\ last.regSame

=============================================================================
